---- MODULE Spec2Model ----
(***************************************************************************)
(* Role-based access control of the project management API.                *)
(*                                                                         *)
(* The server (app.js) parses the JSON body, runs the mock authentication  *)
(* middleware and then the guard of the route.  The guards are the         *)
(* middlewares of middleware/rbac.js (hasPermission, hasRole,              *)
(* hasAnyPermission, hasAllPermissions) over the role table of             *)
(* config/roles.js.  README.md gives the role table, the route policies    *)
(* and, in its FAQ, the code of hasAnyPermission and of the update guard.  *)
(*                                                                         *)
(* Every record is written with its fields in the order TLC keeps them in  *)
(* (the order in which the names first occur in the module), so that a     *)
(* record value shared by TLC's workers is never reordered in place.       *)
(***************************************************************************)
EXTENDS Integers, Sequences, FiniteSets, TLC

VARIABLES
    registry,   \* the role table in force (config/roles.js), fixed at start
    phase,      \* "startup" | "serving" | "failed"
    policy,     \* the requirement constructed at startup for the probed route
    pc,         \* position of the request: "idle" | "received" | "authenticated" | "responded"
    op,         \* operation of the request in flight
    req,        \* the request: [user, body]
    selected,   \* requirements the guard selected for the request, in order
    effects,    \* calls the guard made on (res, next), in order
    verdict,    \* verdict of the request
    evals,      \* number of evaluator invocations for the request
    ran         \* number of times the protected route handler ran

vars == <<registry, phase, policy, pc, op, req, selected, effects, verdict, evals, ran>>

(***************************************************************************)
(* Bounds                                                                  *)
(***************************************************************************)
MaxRequired == 2    \* longest array of required permissions handed to a guard

(***************************************************************************)
(* Permission catalog and role table (README Task 1)                       *)
(***************************************************************************)
PERMISSIONS ==
    { "CREATE_PROJECT", "VIEW_PROJECT", "UPDATE_PROJECT", "DELETE_PROJECT",
      "CREATE_TASK", "VIEW_TASK", "UPDATE_TASK", "DELETE_TASK",
      "VIEW_TEAM", "MANAGE_TEAM" }

ProjectOperations == { "CREATE_PROJECT", "VIEW_PROJECT", "UPDATE_PROJECT", "DELETE_PROJECT" }
TaskOperations == { "CREATE_TASK", "VIEW_TASK", "UPDATE_TASK", "DELETE_TASK" }

\* DEVELOPER granted the update of projects
ROLES_DeveloperUpdatesProjects ==
    [ ADMIN |-> PERMISSIONS,
      PROJECT_MANAGER |-> ProjectOperations \cup TaskOperations \cup { "VIEW_TEAM", "MANAGE_TEAM" },
      TEAM_LEAD |-> { "VIEW_PROJECT" } \cup TaskOperations \cup { "VIEW_TEAM" },
      DEVELOPER |-> { "VIEW_PROJECT", "UPDATE_PROJECT", "VIEW_TASK", "UPDATE_TASK", "VIEW_TEAM" } ]

\* TEAM_LEAD granted the update of projects
ROLES_TeamLeadUpdatesProjects ==
    [ ADMIN |-> PERMISSIONS,
      PROJECT_MANAGER |-> ProjectOperations \cup TaskOperations \cup { "VIEW_TEAM", "MANAGE_TEAM" },
      TEAM_LEAD |-> { "VIEW_PROJECT", "UPDATE_PROJECT" } \cup TaskOperations \cup { "VIEW_TEAM" },
      DEVELOPER |-> { "VIEW_PROJECT", "VIEW_TASK", "UPDATE_TASK", "VIEW_TEAM" } ]

\* The roles of Task 1.2
ROLES ==
    [ ADMIN |-> PERMISSIONS,
      PROJECT_MANAGER |-> ProjectOperations \cup TaskOperations \cup { "VIEW_TEAM", "MANAGE_TEAM" },
      TEAM_LEAD |-> { "VIEW_PROJECT" } \cup TaskOperations \cup { "VIEW_TEAM" },
      DEVELOPER |-> { "VIEW_PROJECT", "VIEW_TASK", "UPDATE_TASK", "VIEW_TEAM" } ]

\* Role tables of the test scenarios of Task 11.2: the mock user's role holds
\* CREATE_PROJECT only, or MANAGE_TEAM only.
TestRoleTables ==
    { [ROLES EXCEPT !["DEVELOPER"] = { "CREATE_PROJECT" }],
      [ROLES EXCEPT !["DEVELOPER"] = { "MANAGE_TEAM" }] }

RoleTables == { ROLES } \cup TestRoleTables

\* Role strings the mock user may carry: the defined roles and one that is not defined.
UnknownRole == "GUEST"
MockRoles == DOMAIN ROLES \cup { UnknownRole }


(***************************************************************************)
(* Requests (app.js)                                                       *)
(***************************************************************************)
\* req.user before any authentication middleware has run
NoUser == [present |-> FALSE, _id |-> "", role |-> ""]

\* JSON values of the body field teamMembers; "undefined" is what reading an
\* absent field yields
TeamMembersValues == { "null", "false", "zero", "emptyString", "emptyArray", "userIds" }

\* Bodies of the requests: any of title and teamMembers, present or not
Bodies ==
    { <<>>, [title |-> "Updated Title"] }
    \cup { [teamMembers |-> v] : v \in TeamMembersValues }
    \cup { [title |-> "Updated Title", teamMembers |-> v] : v \in TeamMembersValues }

\* req.body.field
Get(body, field) == IF field \in DOMAIN body THEN body[field] ELSE "undefined"

\* JavaScript's truthiness of a value
Truthy(v) == v \notin { "null", "false", "zero", "emptyString", "undefined" }

Operations == { "view", "create", "update", "delete", "probe" }

(***************************************************************************)
(* Policy requirements                                                     *)
(***************************************************************************)
Range(s) == { s[i] : i \in DOMAIN s }

Requirement(tag, perms, roleId, clauses) ==
    [tag |-> tag, perms |-> perms, roleId |-> roleId, clauses |-> clauses]

ConfigError == Requirement("ConfigError", <<>>, "", <<>>)
NoPolicy == Requirement("none", <<>>, "", <<>>)

\* hasPermission(permission): the requirement of a single permission
hasPermission(permission) == Requirement("Single", <<permission>>, "", <<>>)

\* hasRole(role): the requirement of the exact role
hasRole(role) == Requirement("RoleExact", <<>>, role, <<>>)

\* hasAnyPermission(requiredPermissions): the argument is made an array when
\* it is a single permission; nothing else is checked
hasAnyPermission(requiredPermissions) ==
    LET permissions == IF requiredPermissions.isArray
                       THEN requiredPermissions.items
                       ELSE <<requiredPermissions.value>>
    IN  Requirement("AnyOf", permissions, "", <<>>)

\* hasAllPermissions(requiredPermissions): an empty requirement is a configuration error
hasAllPermissions(requiredPermissions) ==
    IF requiredPermissions = <<>>
    THEN ConfigError
    ELSE Requirement("AllOf", requiredPermissions, "", <<>>)

\* ANY strategy over clauses that are requirements themselves
anyOf(clauses) ==
    IF clauses = <<>>
    THEN ConfigError
    ELSE Requirement("AnyOfClauses", <<>>, "", clauses)

\* Every permission a requirement names, at any depth
RECURSIVE PermissionsOfRequirement(_)
PermissionsOfRequirement(r) ==
    Range(r.perms)
        \cup UNION { PermissionsOfRequirement(r.clauses[i]) : i \in DOMAIN r.clauses }

(***************************************************************************)
(* Verdicts and what a guard does with (res, next)                         *)
(***************************************************************************)
Allow == [kind |-> "Allow", reason |-> "", missing |-> {}]
Deny(reason, missing) == [kind |-> "Deny", reason |-> reason, missing |-> missing]
Unauthenticated == [kind |-> "Unauthenticated", reason |-> "not authenticated", missing |-> {}]
NoVerdict == [kind |-> "none", reason |-> "", missing |-> {}]

\* next()
Next_ == [call |-> "next", status |-> 0, message |-> "", named |-> {}]
\* res.status(status).json({ message, ... }); named is the set of
\* permissions the body names, empty when the body holds a message only
Reject(status, message, named) ==
    [call |-> "json", status |-> status, message |-> message, named |-> named]

\* The calls a verdict is signalled with: proceed on Allow, reject with the
\* status of the class Forbidden on Deny and Unauthorized on Unauthenticated
Signal(v) ==
    CASE v.kind = "Allow" -> <<Next_>>
      [] v.kind = "Deny" -> <<Reject(403, v.reason, v.missing)>>
      [] OTHER -> <<Reject(401, v.reason, v.missing)>>

\* The verdict a guard's calls amount to: its first call decides
VerdictOf(calls) ==
    LET c == calls[1]
    IN  CASE c.call = "next" -> Allow
          [] c.status = 401 -> Unauthenticated
          [] OTHER -> Deny(c.message, c.named)

StatusClass(status) ==
    CASE status = 401 -> "Unauthorized"
      [] status = 403 -> "Forbidden"
      [] OTHER -> "none"

(***************************************************************************)
(* Policy evaluator (middleware/rbac.js)                                   *)
(***************************************************************************)
\* The same loop with next() called without return: the loop goes on
RECURSIVE hasAnyPermissionLoop_NoReturn(_, _, _)
hasAnyPermissionLoop_NoReturn(permissions, userRolePermissions, i) ==
    IF i > Len(permissions)
    THEN <<Reject(403, "Insufficient permissions", {})>>
    ELSE IF permissions[i] \in userRolePermissions
         THEN <<Next_>> \o hasAnyPermissionLoop_NoReturn(permissions, userRolePermissions, i + 1)
         ELSE hasAnyPermissionLoop_NoReturn(permissions, userRolePermissions, i + 1)

\* The middleware hasAnyPermission returns, run for a user whose role grants
\* userRolePermissions: the for loop over permissions from index i on
RECURSIVE hasAnyPermissionLoop(_, _, _)
hasAnyPermissionLoop(permissions, userRolePermissions, i) ==
    IF i > Len(permissions)
    THEN <<Reject(403, "Insufficient permissions", {})>>
    ELSE IF permissions[i] \in userRolePermissions
         THEN <<Next_>>
         ELSE hasAnyPermissionLoop(permissions, userRolePermissions, i + 1)

hasAnyPermissionMiddleware(permissions, userRolePermissions) ==
    hasAnyPermissionLoop(permissions, userRolePermissions, 1)

\* ALL strategy reporting the whole requirement instead of what is missing
evaluateAllOf_ReportsAll(required, userRolePermissions) ==
    IF Range(required) \subseteq userRolePermissions
    THEN Allow
    ELSE Deny("missing permissions", Range(required))

\* ALL strategy: every required permission is held; a denial names the ones that are not
evaluateAllOf(required, userRolePermissions) ==
    IF Range(required) \subseteq userRolePermissions
    THEN Allow
    ELSE Deny("missing permissions", Range(required) \ userRolePermissions)

\* Single permission
evaluateSingle(permission, userRolePermissions) ==
    IF permission \in userRolePermissions
    THEN Allow
    ELSE Deny("missing permission", { permission })

\* Exact role, whatever the role's permissions
evaluateRoleExact(role, userRoleId) ==
    IF userRoleId = role
    THEN Allow
    ELSE Deny("requires role", {})

\* Unknown role denying nothing: the lookup of the role is skipped
resolve_GrantsUnknown(roles, roleId) ==
    IF roleId \in DOMAIN roles
    THEN [permissions |-> roles[roleId], found |-> TRUE]
    ELSE [permissions |-> PERMISSIONS, found |-> TRUE]

\* resolve(roleId): the role of the table, or not found
resolve(roles, roleId) ==
    IF roleId \in DOMAIN roles
    THEN [permissions |-> roles[roleId], found |-> TRUE]
    ELSE [permissions |-> {}, found |-> FALSE]

\* evaluate(principal, requirement)
RECURSIVE evaluate(_, _, _)
evaluate(roles, roleId, r) ==
    LET userRole == resolve(roles, roleId)
    IN  IF ~userRole.found
        THEN Deny("unknown role", PermissionsOfRequirement(r))
        ELSE CASE r.tag = "Single" -> evaluateSingle(r.perms[1], userRole.permissions)
               [] r.tag = "AnyOf" ->
                    VerdictOf(hasAnyPermissionMiddleware(r.perms, userRole.permissions))
               [] r.tag = "AllOf" -> evaluateAllOf(r.perms, userRole.permissions)
               [] r.tag = "RoleExact" -> evaluateRoleExact(r.roleId, roleId)
               [] r.tag = "AnyOfClauses" ->
                    IF \E i \in DOMAIN r.clauses :
                           evaluate(roles, roleId, r.clauses[i]).kind = "Allow"
                    THEN Allow
                    ELSE Deny("no clause satisfied", PermissionsOfRequirement(r))
               [] OTHER -> Deny("no requirement", {})

\* The calls the guard of a requirement makes for a resolved principal
callsOf(roles, roleId, r) ==
    IF r.tag = "AnyOf" /\ resolve(roles, roleId).found
    THEN hasAnyPermissionMiddleware(r.perms, resolve(roles, roleId).permissions)
    ELSE Signal(evaluate(roles, roleId, r))

\* Guard that evaluates without looking for the principal
guard_NoAuthenticationCheck(roles, user, r) ==
    [calls |-> callsOf(roles, user.role, r), evaluated |-> 1]

\* The guard of a requirement: no principal is rejected before evaluation
guard(roles, user, r) ==
    IF ~user.present
    THEN [calls |-> Signal(Unauthenticated), evaluated |-> 0]
    ELSE [calls |-> callsOf(roles, user.role, r), evaluated |-> 1]


(***************************************************************************)
(* Guard composer: the requirement of each route (routes/project.routes.js)*)
(***************************************************************************)
\* GET /api/projects
ViewPolicy == hasPermission("VIEW_PROJECT")

\* DELETE /api/projects/:id
DeletePolicy == hasRole("ADMIN")

\* POST /api/projects guarded by the flat ANY strategy of Task 8's example
CreatePolicy_FlatAny ==
    hasAnyPermission([isArray |-> TRUE, items |-> <<"CREATE_PROJECT", "MANAGE_TEAM">>,
                      value |-> ""])

\* POST /api/projects: the role PROJECT_MANAGER, or both permissions
CreatePolicy ==
    anyOf(<<hasRole("PROJECT_MANAGER"),
            hasAllPermissions(<<"CREATE_PROJECT", "MANAGE_TEAM">>)>>)

\* PUT /api/projects/:id
updatePolicy(body) ==
    IF Truthy(Get(body, "teamMembers"))
    THEN hasAllPermissions(<<"UPDATE_PROJECT", "MANAGE_TEAM">>)
    ELSE hasPermission("UPDATE_PROJECT")

\* The requirements selected for a request, in the order they are evaluated
select(operation, body, probed) ==
    CASE operation = "view" -> <<ViewPolicy>>
      [] operation = "create" -> <<CreatePolicy>>
      [] operation = "update" -> <<updatePolicy(body)>>
      [] operation = "delete" -> <<DeletePolicy>>
      [] OTHER -> <<probed>>

(***************************************************************************)
(* Inputs                                                                  *)
(***************************************************************************)
\* Permissions the arrays of required permissions are drawn from: for each
\* role one it holds or one it lacks
ArrayPermissions ==
    { "CREATE_PROJECT", "VIEW_PROJECT", "UPDATE_PROJECT", "CREATE_TASK", "MANAGE_TEAM" }

\* Arrays of required permissions of length 0 .. MaxRequired
RequiredArrays == UNION { [1..n -> ArrayPermissions] : n \in 0..MaxRequired }

\* Arguments of hasAnyPermission: an array, or a single permission
AnyArguments ==
    { [isArray |-> TRUE, items |-> a, value |-> ""] : a \in RequiredArrays }
    \cup { [isArray |-> FALSE, items |-> <<>>, value |-> q] : q \in PERMISSIONS }

(***************************************************************************)
(* State machine                                                           *)
(***************************************************************************)
NoRequest == [body |-> <<>>, user |-> NoUser]

Init ==
    /\ registry \in RoleTables
    /\ phase = "startup"
    /\ policy = NoPolicy
    /\ pc = "idle"
    /\ op = "none"
    /\ req = NoRequest
    /\ selected = <<>>
    /\ effects = <<>>
    /\ verdict = NoVerdict
    /\ evals = 0
    /\ ran = 0

\* Startup: the probed route is given the requirement r; a configuration
\* error keeps the process from serving
Mount(r) ==
    /\ phase = "startup"
    /\ IF r = ConfigError
       THEN phase' = "failed" /\ policy' = NoPolicy
       ELSE phase' = "serving" /\ policy' = r
    /\ UNCHANGED <<registry, pc, op, req, selected, effects, verdict, evals, ran>>

MountPermission == \E q \in PERMISSIONS : Mount(hasPermission(q))
MountRole == \E role \in DOMAIN ROLES : Mount(hasRole(role))
MountAny == \E a \in AnyArguments : Mount(hasAnyPermission(a))
MountAll == \E a \in RequiredArrays : Mount(hasAllPermissions(a))

\* A request arrives: express.json() has parsed its body
Receive ==
    /\ phase = "serving"
    /\ pc = "idle"
    /\ \E o \in Operations :
         \E b \in IF o = "update" THEN Bodies ELSE { <<>> } :
            /\ op' = o
            /\ req' = [body |-> b, user |-> NoUser]
    /\ pc' = "received"
    /\ UNCHANGED <<registry, phase, policy, selected, effects, verdict, evals, ran>>

\* Mock authentication middleware of app.js: a logged-in user of the role
\* the file is edited to
MockAuthentication ==
    /\ pc = "received"
    /\ \E role \in MockRoles :
         req' = [req EXCEPT !.user = [present |-> TRUE, _id |-> "mockUserId", role |-> role]]
    /\ pc' = "authenticated"
    /\ UNCHANGED <<registry, phase, policy, op, selected, effects, verdict, evals, ran>>

\* An authentication step that finds no principal leaves req.user unset
NoPrincipal ==
    /\ pc = "received"
    /\ pc' = "authenticated"
    /\ UNCHANGED <<registry, phase, policy, op, req, selected, effects, verdict, evals, ran>>

\* The calls every selected requirement's guard makes, in order
RECURSIVE runGuards(_, _, _)
runGuards(roles, user, rs) ==
    IF rs = <<>>
    THEN [calls |-> <<>>, evaluated |-> 0]
    ELSE LET g == guard(roles, user, Head(rs))
             rest == runGuards(roles, user, Tail(rs))
         IN  [calls |-> g.calls \o rest.calls, evaluated |-> g.evaluated + rest.evaluated]

\* The route's guard runs; every next() runs the route handler
Guard ==
    /\ pc = "authenticated"
    /\ LET rs == select(op, req.body, policy)
           g == runGuards(registry, req.user, rs)
       IN  /\ selected' = rs
           /\ effects' = g.calls
           /\ evals' = g.evaluated
           /\ verdict' = VerdictOf(g.calls)
           /\ ran' = Cardinality({ i \in DOMAIN g.calls : g.calls[i].call = "next" })
    /\ pc' = "responded"
    /\ UNCHANGED <<registry, phase, policy, op, req>>

\* The response is sent; the server waits for the next request
Finish ==
    /\ pc = "responded"
    /\ pc' = "idle"
    /\ op' = "none"
    /\ req' = NoRequest
    /\ selected' = <<>>
    /\ effects' = <<>>
    /\ verdict' = NoVerdict
    /\ evals' = 0
    /\ ran' = 0
    /\ UNCHANGED <<registry, phase, policy>>

Next ==
    \/ MountPermission
    \/ MountRole
    \/ MountAny
    \/ MountAll
    \/ Receive
    \/ MockAuthentication
    \/ NoPrincipal
    \/ Guard
    \/ Finish

Spec == Init /\ [][Next]_vars


(***************************************************************************)
(* Properties                                                              *)
(***************************************************************************)
Responded == pc = "responded"

\* The request in flight has a principal whose role the role table defines
Resolved == req.user.present /\ req.user.role \in DOMAIN registry

\* The role table is the configured one, not one of Task 11.2's test tables
Configured == registry = ROLES

AllOfUpdateAndTeam == Requirement("AllOf", <<"UPDATE_PROJECT", "MANAGE_TEAM">>, "", <<>>)
SingleUpdate == Requirement("Single", <<"UPDATE_PROJECT">>, "", <<>>)
AnyOfManagerOrBoth ==
    Requirement("AnyOfClauses", <<>>, "",
                << Requirement("RoleExact", <<>>, "PROJECT_MANAGER", <<>>),
                   Requirement("AllOf", <<"CREATE_PROJECT", "MANAGE_TEAM">>, "", <<>>) >>)

\* C1: for a defined role R and a non-empty set P, AllOf(P) is allowed exactly
\* when P is a subset of R's permissions, and a denial reports exactly the
\* permissions of P that R does not hold.
C1_AllOfExactMissing ==
    (Responded /\ Resolved /\ Len(selected) = 1 /\ selected[1].tag = "AllOf")
        => LET P == Range(selected[1].perms)
               held == registry[req.user.role]
           IN  /\ P # {}
               /\ (verdict.kind = "Allow") <=> (P \subseteq held)
               /\ verdict.kind # "Allow"
                    => /\ verdict.kind = "Deny"
                       /\ verdict.missing = P \ held
                       /\ verdict.missing \cap held = {}

\* C1 witness: a denial of AllOf(P) by a role that holds part of P, reporting
\* only the part it lacks.
C1_Witness ==
    /\ Responded /\ Resolved /\ op = "probe"
    /\ policy.tag = "AllOf"
    /\ Range(policy.perms) = { "VIEW_PROJECT", "UPDATE_PROJECT" }
    /\ req.user.role = "DEVELOPER" /\ Configured
    /\ verdict = Deny("missing permissions", { "UPDATE_PROJECT" })

\* C2 as claimed: for a defined role R and a non-empty set P, AnyOf(P) is
\* allowed exactly when R holds one of P, and a denial reports the full set P,
\* which is not empty.
C2_AnyOfAsClaimed ==
    (Responded /\ Resolved /\ Len(selected) = 1 /\ selected[1].tag = "AnyOf"
       /\ selected[1].perms # <<>>)
        => LET P == Range(selected[1].perms)
               held == registry[req.user.role]
           IN  /\ (verdict.kind = "Allow") <=> (P \cap held # {})
               /\ verdict.kind # "Allow"
                    => /\ verdict.kind = "Deny"
                       /\ verdict.missing # {}
                       /\ verdict.missing = P

\* C3: for a defined role R and a permission p, Single(p) is allowed exactly
\* when R holds p and is otherwise denied with missing = {p}; the configured
\* DEVELOPER holds VIEW_PROJECT, VIEW_TASK, UPDATE_TASK and VIEW_TEAM and is
\* denied UPDATE_PROJECT with missing = {UPDATE_PROJECT}.
C3_Single ==
    (Responded /\ Resolved /\ Len(selected) = 1 /\ selected[1].tag = "Single")
        => LET p == selected[1].perms[1]
               held == registry[req.user.role]
           IN  /\ Len(selected[1].perms) = 1
               /\ (verdict.kind = "Allow") <=> (p \in held)
               /\ verdict.kind # "Allow"
                    => verdict.kind = "Deny" /\ verdict.missing = { p }
               /\ (Configured /\ req.user.role = "DEVELOPER")
                    => /\ held = { "VIEW_PROJECT", "VIEW_TASK", "UPDATE_TASK", "VIEW_TEAM" }
                       /\ p = "UPDATE_PROJECT"
                            => verdict.kind = "Deny" /\ verdict.missing = { "UPDATE_PROJECT" }

\* C3 witness: the configured DEVELOPER denied a plain update of a project.
C3_Witness ==
    /\ Responded /\ Resolved /\ Configured
    /\ op = "update" /\ "teamMembers" \notin DOMAIN req.body
    /\ req.user.role = "DEVELOPER"
    /\ selected = <<SingleUpdate>>
    /\ verdict.kind = "Deny" /\ verdict.missing = { "UPDATE_PROJECT" }

\* C4 as claimed: an update request is evaluated against exactly one
\* requirement, AllOf({UPDATE_PROJECT, MANAGE_TEAM}) when the payload has the
\* field teamMembers, whatever its value, and Single(UPDATE_PROJECT) when it
\* has not.
C4_SelectionByPresence ==
    (Responded /\ op = "update")
        => /\ Len(selected) = 1
           /\ "teamMembers" \in DOMAIN req.body => selected[1] = AllOfUpdateAndTeam
           /\ "teamMembers" \notin DOMAIN req.body => selected[1] = SingleUpdate

C7_Create ==
    (Responded /\ op = "create" /\ Resolved)
        => LET held == registry[req.user.role]
               both == { "CREATE_PROJECT", "MANAGE_TEAM" } \subseteq held
           IN  /\ selected = <<AnyOfManagerOrBoth>>
               /\ (verdict.kind = "Allow")
                    <=> (req.user.role = "PROJECT_MANAGER" \/ both)
               /\ (req.user.role # "PROJECT_MANAGER" /\ ~both)
                    => verdict.kind = "Deny" /\ ran = 0

\* C7 witness: a DEVELOPER that holds CREATE_PROJECT only is denied creation.
C7_Witness ==
    /\ Responded /\ op = "create" /\ Resolved
    /\ req.user.role = "DEVELOPER"
    /\ registry["DEVELOPER"] = { "CREATE_PROJECT" }
    /\ verdict.kind = "Deny"

C9_NoEmptyRequirement ==
    /\ phase = "serving"
         => ~(policy.tag \in { "AnyOf", "AllOf", "AnyOfClauses" }
                /\ policy.perms = <<>> /\ policy.clauses = <<>>)
    /\ \A i \in DOMAIN selected :
         ~(selected[i].tag \in { "AnyOf", "AllOf", "AnyOfClauses" }
             /\ selected[i].perms = <<>> /\ selected[i].clauses = <<>>)

\* C10: the guard signals exactly one of proceed and reject, and nothing
\* before the verdict: proceed, with the route handler run once, exactly when
\* the verdict is Allow; reject of the class Forbidden on Deny and of the
\* class Unauthorized on Unauthenticated, with the route handler never run.
C10_OneSignal ==
    /\ ~Responded => effects = <<>> /\ ran = 0 /\ verdict = NoVerdict
    /\ Responded
         => /\ Len(effects) = 1
            /\ verdict.kind \in { "Allow", "Deny", "Unauthenticated" }
            /\ (effects[1].call = "next") <=> (verdict.kind = "Allow")
            /\ (ran = 1) <=> (verdict.kind = "Allow")
            /\ ran \in { 0, 1 }
            /\ verdict.kind = "Deny"
                 => /\ effects[1].call = "json"
                    /\ StatusClass(effects[1].status) = "Forbidden"
            /\ verdict.kind = "Unauthenticated"
                 => /\ effects[1].call = "json"
                    /\ StatusClass(effects[1].status) = "Unauthorized"

\* C10 witness: a request allowed by the ANY strategy although the role holds
\* only the second of the required permissions.
C10_Witness ==
    /\ Responded /\ Resolved /\ op = "probe"
    /\ policy.tag = "AnyOf" /\ Len(policy.perms) = 2
    /\ policy.perms[1] \notin registry[req.user.role]
    /\ policy.perms[2] \in registry[req.user.role]
    /\ effects = <<Next_>>
    /\ ran = 1

====
